---- MODULE Spec2Model ----
(***************************************************************************)
(* Model of utec::spatial::BasicSpatial<Point> (src/spatial/BasicSpatial.hpp) *)
(* a fixed grid of buckets with an expanding-window nearest-neighbour       *)
(* search.  insert is one action; nearest_neighbor is a call action, one    *)
(* action per iteration of its while loop, and a return action; find_nearest*)
(* is an operator evaluated inside the loop action, computed column by      *)
(* column and cell by cell as the code does.                                *)
(***************************************************************************)
EXTENDS Integers, Sequences, FiniteSets

\* ---------------------------------------------------------------- constants
DIV == 10
MAX == 1000

\* ------------------------------------------------------------------- bounds
\* number of insert calls explored
MaxInserts == 2

\* points offered to insert: one in the cell (5,5) of the query (55,55); two
\* equidistant from (55,55) in the cell (4,5) left of it; one outside
\* [0,MAX] on both axes, which insert puts in cell (0, hash(MAX))
Points == { <<52, 52>>, <<45, 52>>, <<45, 58>>, <<-15, 1015>> }

\* query points: one inside the universe; one below 0 on x and above MAX on y
Refs == { <<55, 55>>, <<-25, 1030>> }

\* ------------------------------------------------------------------ helpers
\* Point::get(axis), axis 0 or 1
get(p, axis) == p[axis + 1]

\* Point::distance, as the square of the Euclidean distance (order-preserving)
distance(p, q) ==
  (p[1] - q[1]) * (p[1] - q[1]) + (p[2] - q[2]) * (p[2] - q[2])

\* __DBL_MAX__: above every distance of the model
DBL_MAX == 2 * (4 * MAX) * (4 * MAX)

\* int hash_func(int coord) { return (float(coord) / DIV); }
\* the float quotient is converted to int by truncation toward zero
hash_func(coord) ==
  IF coord >= 0 THEN coord \div DIV ELSE -((-coord) \div DIV)

H == hash_func(MAX)

InGrid(x, y) == x \in 0..H /\ y \in 0..H

\* GRID as constructed: ((MAX/DIV)+1) x ((MAX/DIV)+1) empty lists
EmptyGrid == [gx \in 0..(MAX \div DIV) |-> [gy \in 0..(MAX \div DIV) |-> <<>>]]

Sentinel == <<-1, -1>>
Origin == <<0, 0>>

VARIABLES
  GRID,       \* GRID[x][y]: the list of points of cell (x, y)
  pc,         \* "idle", "loop" (head of the while loop), "ret" (returned)
  reference,  \* nearest_neighbor's argument
  curmaxx, curmaxy, curminx, curminy,
  nearest, dist, fstset,
  result,     \* the value nearest_neighbor returned
  inserted,   \* history: the arguments of the insert calls, in order
  touched,    \* history: the GRID indices the last insert used
  iters,      \* history: while-loop iterations begun by the current query
  scanned,    \* history: find_nearest calls made by the current query
  firstHit,   \* history: radius of the first window that set fstset, or -1
  calls,      \* history: the find_nearest calls of the last loop iteration
  prev        \* history: the last query completed since the last insert

vars == << GRID, pc, reference, curmaxx, curmaxy, curminx, curminy,
           nearest, dist, fstset, result, inserted, touched, iters,
           scanned, firstHit, calls, prev >>

locals == << reference, curmaxx, curmaxy, curminx, curminy,
             nearest, dist, fstset >>

NoPrev == [valid |-> FALSE, ref |-> Origin, res |-> Origin]

\* the list stored at GRID[x][y]
Cell(x, y) == IF InGrid(x, y) THEN GRID[x][y] ELSE <<>>

\* ------------------------------------------------------------ find_nearest
\* the body of both range-for loops over one cell (lines 78-90 and 92-104);
\* st carries nearest_, dist_ and fstset_
RECURSIVE ScanCell(_, _, _, _)
ScanCell(cell, k, reference_, st) ==
  IF k > Len(cell) THEN st
  ELSE LET i == cell[k]
           d == distance(i, reference_)
       IN IF ~st.fstset
            THEN ScanCell(cell, k + 1, reference_,
                   [st EXCEPT !.nearest = i, !.fstset = TRUE, !.dist = d])
            ELSE IF d < st.dist
              THEN ScanCell(cell, k + 1, reference_,
                     [st EXCEPT !.nearest = i, !.dist = d])
              ELSE ScanCell(cell, k + 1, reference_, st)

\* history of one find_nearest call: GRID[x][y] is read; cols holds the last
\* and the first column read, rows the rows read
Access(st, x, y) ==
  [st EXCEPT !.reads = @ + 1,
             !.inrange = @ /\ InGrid(x, y),
             !.cols = IF @ = <<>> THEN <<x, x>> ELSE <<x, @[2]>>,
             !.rows = @ \cup {y}]

\* lines 70-75: the clamps at the head of the loop body; they assign to curx,
\* maxy and miny, so the clamped values carry to the next iteration
ClampInLoop(st) ==
  LET cx1 == IF st.curx < 0 THEN 0 ELSE st.curx
      my1 == IF st.maxy < 0 THEN 0 ELSE st.maxy
      cx  == IF cx1 > hash_func(MAX) THEN hash_func(MAX) ELSE cx1
      my  == IF my1 > hash_func(MAX) THEN hash_func(MAX) ELSE my1
      mn1 == IF st.miny < 0 THEN 0 ELSE st.miny
      mn  == IF mn1 > hash_func(MAX) THEN hash_func(MAX) ELSE mn1
  IN [st EXCEPT !.curx = cx, !.maxy = my, !.miny = mn,
                !.reset = @ \/ (cx # st.curx)]

\* lines 70-104 and the curx-- of line 69: one iteration of the for loop
ForBody(st, reference_) ==
  LET c   == ClampInLoop(st)
      top == ScanCell(Cell(c.curx, c.maxy), 1, reference_,
                      Access(c, c.curx, c.maxy))
      bot == ScanCell(Cell(c.curx, c.miny), 1, reference_,
                      Access(top, c.curx, c.miny))
  IN [bot EXCEPT !.curx = @ - 1]

\* line 69: curx >= minx
ForCond(st) == st.curx >= st.minx

\* the for loop of line 69 run for at most n iterations from loop state st:
\* test ForCond, run ForBody, repeat.  The n iterations are split in two
\* halves, the second starting from the state the first one leaves, so that
\* the evaluation nests log n deep instead of n deep (hash(MAX)+1 columns).
RECURSIVE ForLoop(_, _, _)
ForLoop(n, st, reference_) ==
  IF n = 0 \/ ~ForCond(st) THEN st
  ELSE IF n = 1 THEN ForBody(st, reference_)
  ELSE CHOOSE r \in { ForLoop(n - (n \div 2), half, reference_) :
                      half \in { ForLoop(n \div 2, st, reference_) } } : TRUE

\* mutant: the lower bounds are not clamped to 0 (lines 61-62 missing)
ClampWindow_NoLowerClamp(maxx, maxy, minx, miny) ==
  [ minx |-> minx,
    miny |-> miny,
    maxx |-> IF maxx > hash_func(MAX) THEN hash_func(MAX) ELSE maxx,
    maxy |-> IF maxy > hash_func(MAX) THEN hash_func(MAX) ELSE maxy ]

\* mutant: every bound is clamped into [0, hash(MAX)] from both sides
ClampWindow_BothSides(maxx, maxy, minx, miny) ==
  LET cl(v) == IF v < 0 THEN 0
               ELSE IF v > hash_func(MAX) THEN hash_func(MAX) ELSE v
  IN [ minx |-> cl(minx), miny |-> cl(miny),
       maxx |-> cl(maxx), maxy |-> cl(maxy) ]

\* lines 61-64: the clamps before the loop
ClampWindow(maxx, maxy, minx, miny) ==
  [ minx |-> IF minx < 0 THEN 0 ELSE minx,
    miny |-> IF miny < 0 THEN 0 ELSE miny,
    maxx |-> IF maxx > hash_func(MAX) THEN hash_func(MAX) ELSE maxx,
    maxy |-> IF maxy > hash_func(MAX) THEN hash_func(MAX) ELSE maxy ]

\* lines 60-105.  The loop counts curx down from maxx to minx, which takes
\* maxx - minx + 1 iterations unless the body moves curx; finished records
\* that the loop condition has failed by then.  The result carries the
\* arguments (maxx..miny, before) and what the call read, as history.
find_nearest(maxx, maxy, minx, miny, reference_, nearest_, dist_, fstset_) ==
  LET w == ClampWindow(maxx, maxy, minx, miny)
      n == IF w.maxx >= w.minx THEN w.maxx - w.minx + 1 ELSE 0
      r == ForLoop(n,
             [ curx |-> w.maxx, minx |-> w.minx, maxy |-> w.maxy,
               miny |-> w.miny,
               nearest |-> nearest_, dist |-> dist_, fstset |-> fstset_,
               args |-> << maxx, maxy, minx, miny >>,
               before |-> << nearest_, dist_, fstset_ >>,
               reads |-> 0, inrange |-> TRUE, cols |-> <<>>, rows |-> {},
               reset |-> FALSE, finished |-> TRUE ],
             reference_)
  IN [r EXCEPT !.finished = ~ForCond(r)]

\* ------------------------------------------------------------------ actions
Init ==
  /\ GRID = EmptyGrid
  /\ pc = "idle"
  /\ reference = Origin
  /\ curmaxx = 0 /\ curmaxy = 0 /\ curminx = 0 /\ curminy = 0
  /\ nearest = Origin /\ dist = DBL_MAX /\ fstset = FALSE
  /\ result = Origin
  /\ inserted = <<>>
  /\ touched = <<0, 0>>
  /\ iters = 0 /\ scanned = 0 /\ firstHit = -1
  /\ calls = <<>>
  /\ prev = NoPrev

\* mutant: the upper clamps of lines 53-54 are missing
InsertIndex_NoUpperClamp(new_point) ==
  LET x0 == hash_func(get(new_point, 0))
      y0 == hash_func(get(new_point, 1))
  IN << IF x0 < 0 THEN 0 ELSE x0, IF y0 < 0 THEN 0 ELSE y0 >>

\* lines 48-54: the cell indices insert computes
InsertIndex(new_point) ==
  LET x0 == hash_func(get(new_point, 0))
      y0 == hash_func(get(new_point, 1))
      x1 == IF x0 < 0 THEN 0 ELSE x0
      y1 == IF y0 < 0 THEN 0 ELSE y0
      x  == IF x1 > hash_func(MAX) THEN hash_func(MAX) ELSE x1
      y  == IF y1 > hash_func(MAX) THEN hash_func(MAX) ELSE y1
  IN << x, y >>

insert(new_point) ==
  /\ pc = "idle"
  /\ Len(inserted) < MaxInserts
  /\ LET xy == InsertIndex(new_point)
     IN /\ touched' = xy
        /\ GRID' = IF InGrid(xy[1], xy[2])
                     THEN [GRID EXCEPT ![xy[1]][xy[2]] = Append(@, new_point)]
                     ELSE GRID
  /\ inserted' = Append(inserted, new_point)
  /\ prev' = NoPrev
  /\ UNCHANGED << pc, locals, result, iters, scanned, firstHit, calls >>

\* lines 141-150: entry of nearest_neighbor
nearest_neighbor(ref) ==
  /\ pc = "idle"
  /\ LET x == hash_func(get(ref, 0))
         y == hash_func(get(ref, 1))
     IN /\ curmaxx' = x /\ curmaxy' = y
        /\ curminx' = x /\ curminy' = y
  /\ reference' = ref
  /\ nearest' = Origin
  /\ dist' = DBL_MAX
  /\ fstset' = FALSE
  /\ iters' = 0 /\ scanned' = 0 /\ firstHit' = -1
  /\ calls' = <<>>
  /\ pc' = "loop"
  /\ UNCHANGED << GRID, result, inserted, touched, prev >>

\* mutant: the window is compared with MAX, not with hash_func(MAX)
GridExhausted_AgainstMAX ==
  /\ curmaxy > MAX /\ curmaxx > MAX
  /\ curminx < 0 /\ curminy < 0

\* line 153
GridExhausted ==
  /\ curmaxy > hash_func(MAX) /\ curmaxx > hash_func(MAX)
  /\ curminx < 0 /\ curminy < 0

\* mutant: the exhausted search returns nearest, still Point({0, 0})
Exhausted_ReturnsNearest ==
  /\ pc = "loop"
  /\ ~fstset
  /\ curmaxy > hash_func(MAX) /\ curmaxx > hash_func(MAX)
  /\ curminx < 0 /\ curminy < 0
  /\ result' = nearest
  /\ pc' = "ret"
  /\ iters' = iters + 1
  /\ calls' = <<>>
  /\ UNCHANGED << GRID, locals, inserted, touched, scanned, firstHit, prev >>

\* lines 152-154: the loop is entered and the whole grid has been left behind
Exhausted ==
  /\ pc = "loop"
  /\ ~fstset
  /\ GridExhausted
  /\ result' = Sentinel
  /\ pc' = "ret"
  /\ iters' = iters + 1
  /\ calls' = <<>>
  /\ UNCHANGED << GRID, locals, inserted, touched, scanned, firstHit, prev >>

\* mutant: the loop returns after the first window that finds a candidate
Iterate_NoExtraScan ==
  /\ pc = "loop"
  /\ ~fstset
  /\ ~GridExhausted
  /\ \E r1 \in { find_nearest(curmaxx, curmaxy, curminx, curminy,
                               reference, nearest, dist, fstset) } :
     \E r \in { r1 } :
        /\ nearest' = r.nearest
        /\ dist' = r.dist
        /\ fstset' = r.fstset
        /\ calls' = << r1 >>
        /\ scanned' = scanned + 1
        /\ firstHit' = IF r1.fstset
                         THEN curmaxx - hash_func(get(reference, 0))
                         ELSE firstHit
        /\ pc' = IF r.fstset THEN "ret" ELSE "loop"
        /\ result' = IF r.fstset THEN r.nearest ELSE result
  /\ curmaxx' = curmaxx + 1
  /\ curmaxy' = curmaxy + 1
  /\ curminx' = curminx - 1
  /\ curminy' = curminy - 1
  /\ iters' = iters + 1
  /\ UNCHANGED << GRID, reference, inserted, touched, prev >>

\* mutant: the scan takes the candidate it returns out of its cell
Iterate_Consuming ==
  /\ pc = "loop"
  /\ ~fstset
  /\ ~GridExhausted
  /\ \E r1 \in { find_nearest(curmaxx, curmaxy, curminx, curminy,
                               reference, nearest, dist, fstset) } :
     \E r \in { IF r1.fstset
                  THEN find_nearest(curmaxx + 1, curmaxy + 1,
                                    curminx - 1, curminy - 1,
                                    reference, r1.nearest, r1.dist, r1.fstset)
                  ELSE r1 } :
        /\ nearest' = r.nearest
        /\ dist' = r.dist
        /\ fstset' = r.fstset
        /\ calls' = IF r1.fstset THEN << r1, r >> ELSE << r1 >>
        /\ scanned' = scanned + (IF r1.fstset THEN 2 ELSE 1)
        /\ firstHit' = IF r1.fstset
                         THEN curmaxx - hash_func(get(reference, 0))
                         ELSE firstHit
        /\ pc' = IF r.fstset THEN "ret" ELSE "loop"
        /\ result' = IF r.fstset THEN r.nearest ELSE result
        /\ GRID' = IF r.fstset
                     THEN LET c == InsertIndex(r.nearest)
                          IN [GRID EXCEPT ![c[1]][c[2]] =
                                SelectSeq(@, LAMBDA q : q # r.nearest)]
                     ELSE GRID
  /\ curmaxx' = curmaxx + 1
  /\ curmaxy' = curmaxy + 1
  /\ curminx' = curminx - 1
  /\ curminy' = curminy - 1
  /\ iters' = iters + 1
  /\ UNCHANGED << reference, inserted, touched, prev >>

\* lines 152, 156-165: one full iteration of the while loop; when it leaves
\* fstset set the loop condition fails and line 165 returns nearest.
\* r1 is the outcome of the call of line 156, r of the call of line 163 when
\* it is made.
Iterate ==
  /\ pc = "loop"
  /\ ~fstset
  /\ ~GridExhausted
  /\ \E r1 \in { find_nearest(curmaxx, curmaxy, curminx, curminy,
                               reference, nearest, dist, fstset) } :
     \E r \in { IF r1.fstset
                  THEN find_nearest(curmaxx + 1, curmaxy + 1,
                                    curminx - 1, curminy - 1,
                                    reference, r1.nearest, r1.dist, r1.fstset)
                  ELSE r1 } :
        /\ nearest' = r.nearest
        /\ dist' = r.dist
        /\ fstset' = r.fstset
        /\ calls' = IF r1.fstset THEN << r1, r >> ELSE << r1 >>
        /\ scanned' = scanned + (IF r1.fstset THEN 2 ELSE 1)
        /\ firstHit' = IF r1.fstset
                         THEN curmaxx - hash_func(get(reference, 0))
                         ELSE firstHit
        /\ pc' = IF r.fstset THEN "ret" ELSE "loop"
        /\ result' = IF r.fstset THEN r.nearest ELSE result
  /\ curmaxx' = curmaxx + 1
  /\ curmaxy' = curmaxy + 1
  /\ curminx' = curminx - 1
  /\ curminy' = curminy - 1
  /\ iters' = iters + 1
  /\ UNCHANGED << GRID, reference, inserted, touched, prev >>

\* the caller receives the result; the locals of the call are gone
Return ==
  /\ pc = "ret"
  /\ pc' = "idle"
  /\ prev' = [valid |-> TRUE, ref |-> reference, res |-> result]
  /\ reference' = Origin
  /\ curmaxx' = 0 /\ curmaxy' = 0 /\ curminx' = 0 /\ curminy' = 0
  /\ nearest' = Origin /\ dist' = DBL_MAX /\ fstset' = FALSE
  /\ iters' = 0 /\ scanned' = 0 /\ firstHit' = -1
  /\ calls' = <<>>
  /\ UNCHANGED << GRID, result, inserted, touched >>

Next ==
  \/ \E p \in Points : insert(p)
  \/ \E ref \in Refs : nearest_neighbor(ref)
  \/ Exhausted
  \/ Iterate
  \/ Return

Spec == Init /\ [][Next]_vars

\* ------------------------------------------------------------ the claims
Stored == { inserted[i] : i \in 1..Len(inserted) }

Clamp(v, lo, hi) == IF v < lo THEN lo ELSE IF v > hi THEN hi ELSE v

\* the cell the specification assigns to a point
CellOf(p) == << Clamp(hash_func(p[1]), 0, H), Clamp(hash_func(p[2]), 0, H) >>

\* the grid that holds each point of s in its cell, in the order of s
RECURSIVE ExpectedGrid(_)
ExpectedGrid(s) ==
  IF s = <<>> THEN EmptyGrid
  ELSE LET p == s[Len(s)]
           c == CellOf(p)
       IN [ExpectedGrid(SubSeq(s, 1, Len(s) - 1))
             EXCEPT ![c[1]][c[2]] = Append(@, p)]

Max2(a, b) == IF a >= b THEN a ELSE b

\* the home cell of the current query
HomeX == hash_func(reference[1])
HomeY == hash_func(reference[2])

InUniverse(p) == p[1] \in 0..MAX /\ p[2] \in 0..MAX

\* C1: for a non-empty structure nearest_neighbor returns a stored point that
\* is at least as close to the query as every stored point.
C1_TrueNearestNeighbour ==
  (pc = "ret" /\ inserted # <<>>) =>
    /\ result \in Stored
    /\ \A p \in Stored : distance(result, reference) <= distance(p, reference)

\* C2: when at least one point has been inserted the query finds a candidate
\* before the grid-exhausted check fires and returns an inserted point, never
\* the sentinel.
C2_SentinelOnlyWhenEmpty ==
  (pc = "ret" /\ inserted # <<>>) =>
    fstset /\ result # Sentinel /\ result \in Stored

\* C3: with zero insertions nearest_neighbor returns the sentinel (-1,-1) for
\* every query point, also one below 0 or above MAX.
C3_EmptyReturnsSentinel ==
  (pc = "ret" /\ inserted = <<>>) => result = Sentinel

C3_Witness ==
  /\ pc = "ret" /\ inserted = <<>>
  /\ reference[1] < 0 /\ reference[2] > MAX
  /\ result = Sentinel

\* C4: each insert appends its point to the one cell (clamp(hash(x)),
\* clamp(hash(y))) and nothing else changes a cell, so after any inserts and
\* queries every cell holds exactly the inserted points that map to it.
C4_Placement ==
  /\ GRID = ExpectedGrid(inserted)
  /\ inserted # <<>> => touched = CellOf(inserted[Len(inserted)])

C4_Witness ==
  /\ pc = "ret"
  /\ Len(inserted) = 2
  /\ inserted[1] = <<-15, 1015>>
  /\ GRID[0][H] = << <<-15, 1015>> >>
  /\ GRID[4][5] # <<>>

\* C5: no step of nearest_neighbor changes a cell, and a query with the same
\* reference point as the previous query, with no insert in between, returns
\* the same result.
C5_QueryIsReadOnlyAndRepeatable ==
  [][ /\ (pc = "loop" \/ pc' = "loop") => GRID' = GRID
      /\ (pc = "loop" /\ pc' = "ret" /\ prev.valid /\ prev.ref = reference)
           => result' = prev.res ]_vars

C5_Witness ==
  /\ pc = "ret"
  /\ inserted # <<>>
  /\ prev.valid /\ prev.ref = reference /\ prev.res = result
  /\ result \in Stored

\* C6 as stated: on an empty structure the query ends within hash(MAX)+2
\* iterations of its loop, whatever the query point.
C6_BoundedByGridAlone ==
  (pc \in {"loop", "ret"} /\ inserted = <<>>) => iters <= H + 2

\* iterations the termination check of line 153 allows from home cell (hx, hy)
IterBound(hx, hy) == Max2(Max2(hx, H - hx), Max2(hy, H - hy)) + 2

\* C6 as amended: on an empty structure the query ends after exactly
\* max(hx, H-hx, hy, H-hy)+2 iterations, (hx, hy) the home cell of the query;
\* that is at most hash(MAX)+2 when the query point lies in [0,MAX] x [0,MAX].
C6_BoundedByGridAndHomeCell ==
  (pc \in {"loop", "ret"} /\ inserted = <<>>) =>
    /\ iters <= IterBound(HomeX, HomeY)
    /\ pc = "ret" => iters = IterBound(HomeX, HomeY)
    /\ InUniverse(reference) => iters <= H + 2

C6_Witness ==
  /\ pc = "ret" /\ inserted = <<>>
  /\ result = Sentinel
  /\ iters > H + 2

\* C7: when two points of one cell are equidistant from the query and no
\* stored point is closer, nearest_neighbor returns the one inserted first.
C7_FirstInsertedWins ==
  pc = "ret" =>
    \A i, j \in 1..Len(inserted) :
      ( /\ i < j
        /\ CellOf(inserted[i]) = CellOf(inserted[j])
        /\ distance(inserted[i], reference) = distance(inserted[j], reference)
        /\ \A p \in Stored :
             distance(inserted[i], reference) <= distance(p, reference)
        /\ \A k \in 1..(i - 1) :
             distance(inserted[k], reference) # distance(inserted[i], reference) )
      => result = inserted[i]

\* the window of a call is the square of radius r around the home cell
IsRing(call, r) ==
  call.args = << HomeX + r, HomeY + r, HomeX - r, HomeY - r >>

\* C8: windows are scanned in order of radius from 0; while no candidate is
\* found the loop goes on without returning a point; when the scan of radius k
\* is the first to find one, radius k+1 is scanned too and the query returns.
C8_OneExtraRing ==
  /\ \A i \in 1..Len(calls) : IsRing(calls[i], scanned - Len(calls) + i - 1)
  /\ pc = "loop" => ~fstset /\ firstHit = -1 /\ scanned = iters
  /\ (pc = "ret" /\ fstset) =>
       /\ firstHit >= 0
       /\ scanned = firstHit + 2
       /\ Len(calls) = 2
       /\ ~calls[1].before[3] /\ calls[1].fstset
       /\ result = nearest
  /\ (pc = "ret" /\ ~fstset) => result = Sentinel /\ firstHit = -1

C8_Witness ==
  /\ pc = "ret" /\ fstset
  /\ firstHit >= 1
  /\ scanned = firstHit + 2
  /\ IsRing(calls[2], firstHit + 1)

\* the window <<maxx, maxy, minx, miny>> misses [0, hash(MAX)] on the x axis
OutsideX(args) == args[1] < 0 \/ args[3] > H
\* ... on the y axis
OutsideY(args) == args[2] < 0 \/ args[4] > H

Unchanged(call) ==
  << call.nearest, call.dist, call.fstset >> = call.before

\* C9 as stated: a window entirely outside the index range on either axis
\* makes find_nearest read no cell and leave nearest, dist and found alone.
C9_OutsideWindowScansNothing ==
  \A i \in 1..Len(calls) :
    (OutsideX(calls[i].args) \/ OutsideY(calls[i].args)) =>
      calls[i].reads = 0 /\ Unchanged(calls[i])

\* C9 as amended: a window outside the range on the x axis reads no cell and
\* changes nothing; a window outside the range on the y axis only is clamped
\* onto the boundary row (row hash(MAX) above, row 0 below), and find_nearest
\* reads that row's cell twice for every column of the window inside the grid.
C9_OutsideOnXScansNothing ==
  \A i \in 1..Len(calls) :
    LET c == calls[i]
        lo == Max2(c.args[3], 0)
        hi == IF c.args[1] > H THEN H ELSE c.args[1]
    IN /\ OutsideX(c.args) => c.reads = 0 /\ Unchanged(c)
       /\ (OutsideY(c.args) /\ ~OutsideX(c.args)) =>
            /\ c.reads = 2 * (hi - lo + 1)
            /\ c.cols = << lo, hi >>
            /\ c.rows = { IF c.args[4] > H THEN H ELSE 0 }

C9_Witness ==
  /\ Len(calls) = 2
  /\ OutsideY(calls[1].args) /\ ~OutsideX(calls[1].args)
  /\ calls[1].reads > 0
  /\ ~Unchanged(calls[1])
  /\ iters >= 3

\* C10: every index insert and find_nearest use on GRID lies in
\* [0, hash(MAX)] on both axes, the clamps inside the loop never move curx,
\* and the scan loop finishes.
C10_IndicesInRange ==
  /\ InGrid(touched[1], touched[2])
  /\ \A i \in 1..Len(calls) :
       calls[i].inrange /\ ~calls[i].reset /\ calls[i].finished

C10_Witness ==
  /\ Len(calls) >= 1
  /\ calls[1].args[3] < 0 /\ calls[1].args[2] > H
  /\ calls[1].reads > 0
  /\ <<-15, 1015>> \in Stored /\ touched = << 0, H >>

====
